---- MODULE Spec2Model ----
(***************************************************************************)
(* Model of src/commands/githubActions/build.ts: the `build` subcommand of *)
(* the github-actions CLI.  gaBuildHandler reads the CI context, dispatches *)
(* on the event name and the parsed ref, calls buildHandler and, for a push *)
(* of a non-permanent branch, comments the release hash on the open PRs of  *)
(* that branch.                                                             *)
(*                                                                          *)
(* Strings that the code concatenates or searches are sequences of          *)
(* one-character strings, so that template literals are concatenations and  *)
(* String.prototype.includes is a substring search.                         *)
(***************************************************************************)
EXTENDS Integers, Sequences, FiniteSets, TLC

----------------------------------------------------------------------------
(* Bounds of the model *)

\* longest commit sha / release hash drawn as an input
MaxStrLen == 1
\* most open pull requests getOpenPrsFromBranch returns
MaxPrs == 2

----------------------------------------------------------------------------
(* String literals of build.ts *)

\* the grave accent (U+0060), which a TLA+ string literal cannot hold
BACKTICK == "U+0060"

\* build.ts:26

botCommentTag ==
    << "(", "b", "y", " ", "d", "a", "p", "p", "n", "o", "d", "e", "b", "o",
      "t", "/", "b", "u", "i", "l", "d", "-", "a", "c", "t", "i", "o", "n",
      ")" >>

\* build.ts:113, the template up to ${commitSha}
CommentIntro ==
    << "D", "A", "p", "p", "N", "o", "d", "e", " ", "b", "o", "t", " ", "h",
      "a", "s", " ", "b", "u", "i", "l", "t", " ", "a", "n", "d", " ", "p",
      "i", "n", "n", "e", "d", " ", "t", "h", "e", " ", "r", "e", "l", "e",
      "a", "s", "e", " ", "t", "o", " ", "a", "n", " ", "I", "P", "F", "S",
      " ", "n", "o", "d", "e", ",", " ", "f", "o", "r", " ", "c", "o", "m",
      "m", "i", "t", ":", " " >>

\* build.ts:113-115, between ${commitSha} and ${installLink}
CommentWarning ==
    << "\n", "\n", "T", "h", "i", "s", " ", "i", "s", " ", "a", " ", "d",
      "e", "v", "e", "l", "o", "p", "m", "e", "n", "t", " ", "v", "e", "r",
      "s", "i", "o", "n", " ", "a", "n", "d", " ", "s", "h", "o", "u", "l",
      "d", " ", "*", "*", "o", "n", "l", "y", "*", "*", " ", "b", "e", " ",
      "i", "n", "s", "t", "a", "l", "l", "e", "d", " ", "f", "o", "r", " ",
      "t", "e", "s", "t", "i", "n", "g", " ", "p", "u", "r", "p", "o", "s",
      "e", "s", ",", " ", "[", "i", "n", "s", "t", "a", "l", "l", " ", "l",
      "i", "n", "k", "]", "(" >>

\* build.ts:115-117, between ${installLink} and ${releaseMultiHash}
CommentFenceOpen ==
    << ")", "\n", "\n", BACKTICK, BACKTICK, BACKTICK, "\n" >>

\* build.ts:118-120, between ${releaseMultiHash} and ${botCommentTag}
CommentFenceClose ==
    << "\n", BACKTICK, BACKTICK, BACKTICK, "\n", "\n" >>

\* build.ts:121-122, after ${botCommentTag}
CommentEnd ==
    << "\n" >>

\* build.ts:49, 78
EventPush ==
    << "p", "u", "s", "h" >>

\* build.ts:78
EventPullRequest ==
    << "p", "u", "l", "l", "_", "r", "e", "q", "u", "e", "s", "t" >>

\* build.ts:52-54
BranchHEAD ==
    << "H", "E", "A", "D" >>

BranchMaster ==
    << "m", "a", "s", "t", "e", "r" >>

BranchMain ==
    << "m", "a", "i", "n" >>

\* build.ts:93
NoContextMessage ==
    << "N", "o", "t", " ", "i", "n", " ", "G", "i", "t", "h", "u", "b", " ",
      "a", "c", "t", "i", "o", "n", " ", "c", "o", "n", "t", "e", "x", "t" >>

\* build.ts:95, the template up to ${eventName}
UnsupportedEventPrefix ==
    << "U", "n", "s", "u", "p", "p", "o", "r", "t", "e", "d", " ", "e", "v",
      "e", "n", "t", " " >>

----------------------------------------------------------------------------
(* Inputs: what the CI environment and the collaborators can supply *)

\* event names other than the two the action handles

EventDeployment ==
    << "d", "e", "p", "l", "o", "y", "m", "e", "n", "t" >>

EventRelease ==
    << "r", "e", "l", "e", "a", "s", "e" >>

\* <<>> stands for an event name that is absent (undefined or empty: falsy)
EventNames == {<<>>, EventPush, EventPullRequest, EventDeployment, EventRelease}

\* branch and tag names

BranchFeatureX ==
    << "f", "e", "a", "t", "u", "r", "e", "-", "x" >>

BranchMainline ==
    << "m", "a", "i", "n", "l", "i", "n", "e" >>

TagV1 ==
    << "v", "1", ".", "0", ".", "0" >>

BranchNames == {BranchFeatureX, BranchMainline, BranchHEAD, BranchMaster, BranchMain}

\* results of parseRef: a branch, a tag, or neither
Refs ==
    {[type |-> "branch", branch |-> b] : b \in BranchNames}
      \cup {[type |-> "tag", tag |-> TagV1], [type |-> "other"]}

\* non-empty strings over alphabet A of length at most n
StringsOver(A, n) == UNION {[1..k -> A] : k \in 1..n}

CommitShas == StringsOver({"a", "b"}, MaxStrLen)

ReleaseHashes == StringsOver({"Q", "m"}, MaxStrLen)

PrNumbers == 1..MaxPrs

\* lists of open pull requests: distinct numbers, in any order
PrLists ==
    {l \in UNION {[1..k -> PrNumbers] : k \in 0..MaxPrs} :
        \A i, j \in DOMAIN l : i # j => l[i] # l[j]}

\* comments already on a pull request when the bot comments

HumanComment ==
    << "L", "G", "T", "M" >>

NearMissComment ==
    << "(", "b", "y", " ", "d", "a", "p", "p", "n", "o", "d", "e", "b", "o",
      "t", "/", "b", "u", "i", "l", "d", "-", "a", "c", "t", "i", "o", "n" >>

QuotedTagComment ==
    << ">", " ", "(", "b", "y", " ", "d", "a", "p", "p", "n", "o", "d", "e",
      "b", "o", "t", "/", "b", "u", "i", "l", "d", "-", "a", "c", "t", "i",
      "o", "n", ")", " ", "a", "g", "a", "i", "n", "?" >>

\* failures of the collaborators

BuildFailedMessage ==
    << "b", "u", "i", "l", "d", " ", "f", "a", "i", "l", "e", "d" >>

ListFailedMessage ==
    << "l", "i", "s", "t", " ", "f", "a", "i", "l", "e", "d" >>

CommentFailedMessage ==
    << "c", "o", "m", "m", "e", "n", "t", " ", "f", "a", "i", "l", "e", "d" >>

\* base of the install link
installBaseUrl ==
    << "h", "t", "t", "p", ":", "/", "/", "m", "y", ".", "d", "a", "p", "p",
      "n", "o", "d", "e", "/", "#", "/", "i", "n", "s", "t", "a", "l", "l",
      "e", "r", "/" >>

----------------------------------------------------------------------------
(* Pure functions *)

Error(msg) == [message |-> msg]

NoError == Error(<<>>)

\* String.prototype.includes: t occurs in s at some position k
includes(s, t) ==
    \E k \in 1..(Len(s) - Len(t) + 1) : SubSeq(s, k, k + Len(t) - 1) = t

\* utils/getLinks.getInstallDnpLink: a URL derived from the hash
getInstallDnpLink(releaseHash) == installBaseUrl \o releaseHash

\* build.ts:104-123
getBuildBotComment(sha, releaseHash) ==
    CommentIntro \o sha \o CommentWarning \o getInstallDnpLink(releaseHash)
      \o CommentFenceOpen \o releaseHash \o CommentFenceClose
      \o botCommentTag \o CommentEnd

\* the search for the tag without its closing parenthesis
isTargetComment_TruncatedTag(commentBody) ==
    includes(commentBody, SubSeq(botCommentTag, 1, Len(botCommentTag) - 1))

\* build.ts:128-130
isTargetComment(commentBody) == includes(commentBody, botCommentTag)

\* the condition without its last conjunct, the test for main
IsUploadPush_MainUploads(e, r) ==
    /\ e = EventPush
    /\ r.type = "branch"
    /\ r.branch # BranchHEAD
    /\ r.branch # BranchMaster

\* the condition without its first conjunct, the test of the event name
IsUploadPush_AnyEvent(e, r) ==
    /\ r.type = "branch"
    /\ r.branch # BranchHEAD
    /\ r.branch # BranchMaster
    /\ r.branch # BranchMain

\* build.ts:48-55: a push of a branch that is eventually deleted
IsUploadPush(e, r) ==
    /\ e = EventPush
    /\ r.type = "branch"
    /\ r.branch # BranchHEAD
    /\ r.branch # BranchMaster
    /\ r.branch # BranchMain

\* the test written with !== in place of ===: true of every event name
IsBuildEvent_NotEquals(e) == e # EventPush \/ e # EventPullRequest

\* build.ts:78
IsBuildEvent(e) == e = EventPush \/ e = EventPullRequest

\* the options without delete_old_pins
UploadBuildOptions_KeepOldPins ==
    [provider |-> "pinata", upload_to |-> "ipfs", require_git_data |-> TRUE,
     verbose |-> TRUE]

\* build.ts:56-62
UploadBuildOptions ==
    [provider |-> "pinata", upload_to |-> "ipfs", require_git_data |-> TRUE,
     delete_old_pins |-> TRUE, verbose |-> TRUE]

\* build.ts:86-91
TestBuildOptions ==
    [provider |-> "dappnode", upload_to |-> "ipfs", skip_save |-> TRUE,
     verbose |-> TRUE]

\* the call made with the position in the list in place of pr.number
MapCommentToPr_Index(list, commentBody) ==
    [i \in 1..Len(list) |-> [number |-> i, body |-> commentBody]]

\* the call made for the first pull request of the list only
MapCommentToPr_FirstOnly(list, commentBody) ==
    [i \in 1..(IF Len(list) = 0 THEN 0 ELSE 1) |->
        [number |-> list[i], body |-> commentBody]]

\* build.ts:71-73: one commentToPr call per pull request of the list
MapCommentToPr(list, commentBody) ==
    [i \in 1..Len(list) |-> [number |-> list[i], body |-> commentBody]]

\* the message without the event name
UnsupportedEventMessage_NoName(e) == UnsupportedEventPrefix

\* build.ts:95
UnsupportedEventMessage(e) == UnsupportedEventPrefix \o e

\* index of the first comment of the thread, from position i on, that the
\* predicate handed to commentToPr (isTargetComment) accepts; 0 if none
RECURSIVE FindComment(_, _)
FindComment(thread, i) ==
    IF i > Len(thread) THEN 0
    ELSE IF isTargetComment(thread[i]) THEN i
    ELSE FindComment(thread, i + 1)

\* Github.commentToPr({number, body, isTargetComment}) on the thread of the
\* pull request: update the comment the predicate finds, else create one
commentToPr(thread, commentBody) ==
    LET i == FindComment(thread, 1) IN
    IF i = 0 THEN Append(thread, commentBody)
    ELSE [thread EXCEPT ![i] = commentBody]

\* comment threads a pull request can hold before the bot comments
ExistingThreads ==
    { <<>>,
      <<HumanComment, NearMissComment>>,
      <<HumanComment, getBuildBotComment(<<"0">>, <<"Q">>), QuotedTagComment>> }

BuildErrors == {Error(BuildFailedMessage)}

ListErrors == {Error(ListFailedMessage)}

CommentErrors == {Error(CommentFailedMessage)}

----------------------------------------------------------------------------
(* State *)

VARIABLES
    eventName,         \* build.ts:42, getGithubContext().eventName
    commitSha,         \* build.ts:42, getGithubContext().sha
    ref,               \* build.ts:43, parseRef(refString)
    pc,                \* where gaBuildHandler stands
    releaseMultiHash,  \* build.ts:56
    body,              \* build.ts:64
    prs,               \* build.ts:67
    thrown,            \* the error gaBuildHandler rejected with
    buildCalls,        \* options of the buildHandler calls, in call order
    buildPromise,      \* promise of the buildHandler call
    listCalls,         \* arguments of the getOpenPrsFromBranch calls
    listPromise,       \* promise of the getOpenPrsFromBranch call
    commentCalls,      \* arguments of the commentToPr calls, in call order
    posts              \* per pull request: promise of its commentToPr call

vars ==
    <<eventName, commitSha, ref, pc, releaseMultiHash, body, prs, thrown,
      buildCalls, buildPromise, listCalls, listPromise, commentCalls, posts>>

context == <<eventName, commitSha, ref>>

NoPromise == [state |-> "none", reason |-> NoError]

Pending == [state |-> "pending", reason |-> NoError]

Fulfilled == [state |-> "fulfilled", reason |-> NoError]

Rejected(err) == [state |-> "rejected", reason |-> err]

NoPost == [state |-> "none", reason |-> NoError, fetched |-> <<>>, thread |-> <<>>]

Init ==
    /\ eventName \in EventNames
    /\ commitSha \in CommitShas
    /\ ref \in Refs
    /\ pc = "start"
    /\ releaseMultiHash = <<>>
    /\ body = <<>>
    /\ prs = <<>>
    /\ thrown = NoError
    /\ buildCalls = <<>>
    /\ buildPromise = NoPromise
    /\ listCalls = <<>>
    /\ listPromise = NoPromise
    /\ commentCalls = <<>>
    /\ posts = [n \in PrNumbers |-> NoPost]

----------------------------------------------------------------------------
(* gaBuildHandler, build.ts:39-97 *)

\* build.ts:48-62: the upload build is started
StartUploadBuild ==
    /\ pc = "start"
    /\ IsUploadPush(eventName, ref)
    /\ buildCalls' = Append(buildCalls, UploadBuildOptions)
    /\ buildPromise' = Pending
    /\ pc' = "await_upload_build"
    /\ UNCHANGED <<context, releaseMultiHash, body, prs, thrown, listCalls,
                   listPromise, commentCalls, posts>>

\* build.ts:78-91: the test build is started
StartTestBuild ==
    /\ pc = "start"
    /\ ~IsUploadPush(eventName, ref)
    /\ IsBuildEvent(eventName)
    /\ buildCalls' = Append(buildCalls, TestBuildOptions)
    /\ buildPromise' = Pending
    /\ pc' = "await_test_build"
    /\ UNCHANGED <<context, releaseMultiHash, body, prs, thrown, listCalls,
                   listPromise, commentCalls, posts>>

\* build.ts:92-93
ThrowNoContext ==
    /\ pc = "start"
    /\ ~IsUploadPush(eventName, ref)
    /\ ~IsBuildEvent(eventName)
    /\ eventName = <<>>
    /\ thrown' = Error(NoContextMessage)
    /\ pc' = "thrown"
    /\ UNCHANGED <<context, releaseMultiHash, body, prs, buildCalls,
                   buildPromise, listCalls, listPromise, commentCalls, posts>>

\* build.ts:94-96
ThrowUnsupportedEvent ==
    /\ pc = "start"
    /\ ~IsUploadPush(eventName, ref)
    /\ ~IsBuildEvent(eventName)
    /\ eventName # <<>>
    /\ thrown' = Error(UnsupportedEventMessage(eventName))
    /\ pc' = "thrown"
    /\ UNCHANGED <<context, releaseMultiHash, body, prs, buildCalls,
                   buildPromise, listCalls, listPromise, commentCalls, posts>>

\* build.ts:56-67: the upload build returns a hash; the comment is formatted
\* and the open pull requests of the branch are asked for
UploadBuildResolves(h) ==
    /\ pc = "await_upload_build"
    /\ buildPromise' = Fulfilled
    /\ releaseMultiHash' = h
    /\ body' = getBuildBotComment(commitSha, h)
    /\ listCalls' = Append(listCalls, [branch |-> ref.branch])
    /\ listPromise' = Pending
    /\ pc' = "await_prs"
    /\ UNCHANGED <<context, prs, thrown, buildCalls, commentCalls, posts>>

\* the failure of the build caught: the handler goes on to list the pull
\* requests, with no hash
UploadBuildRejects_Swallowed(err) ==
    /\ pc = "await_upload_build"
    /\ buildPromise' = Rejected(err)
    /\ body' = getBuildBotComment(commitSha, releaseMultiHash)
    /\ listCalls' = Append(listCalls, [branch |-> ref.branch])
    /\ listPromise' = Pending
    /\ pc' = "await_prs"
    /\ UNCHANGED <<context, releaseMultiHash, prs, thrown, buildCalls,
                   commentCalls, posts>>

\* build.ts:56: the upload build fails, the handler rejects with its error
UploadBuildRejects(err) ==
    /\ pc = "await_upload_build"
    /\ buildPromise' = Rejected(err)
    /\ thrown' = err
    /\ pc' = "thrown"
    /\ UNCHANGED <<context, releaseMultiHash, body, prs, buildCalls,
                   listCalls, listPromise, commentCalls, posts>>

\* build.ts:67-74: the list of pull requests arrives; prs.map issues every
\* commentToPr call before Promise.all is awaited
PrsResolve(list) ==
    /\ pc = "await_prs"
    /\ listPromise' = Fulfilled
    /\ prs' = list
    /\ commentCalls' = commentCalls \o MapCommentToPr(list, body)
    /\ posts' =
         [n \in PrNumbers |->
            IF \E i \in DOMAIN MapCommentToPr(list, body) :
                   MapCommentToPr(list, body)[i].number = n
            THEN [posts[n] EXCEPT !.state = "pending"]
            ELSE posts[n]]
    /\ pc' = "await_comments"
    /\ UNCHANGED <<context, releaseMultiHash, body, thrown, buildCalls,
                   buildPromise, listCalls>>

\* build.ts:67: listing the pull requests fails
PrsReject(err) ==
    /\ pc = "await_prs"
    /\ listPromise' = Rejected(err)
    /\ thrown' = err
    /\ pc' = "thrown"
    /\ UNCHANGED <<context, releaseMultiHash, body, prs, buildCalls,
                   buildPromise, listCalls, commentCalls, posts>>

\* build.ts:72: one commentToPr call completes: the comment is on the thread
CommentResolves(n, thread) ==
    /\ posts[n].state = "pending"
    /\ posts' =
         [posts EXCEPT
            ![n] = [state |-> "fulfilled", reason |-> NoError,
                    fetched |-> thread,
                    thread |-> commentToPr(thread, body)]]
    /\ UNCHANGED <<context, pc, releaseMultiHash, body, prs, thrown,
                   buildCalls, buildPromise, listCalls, listPromise,
                   commentCalls>>

\* build.ts:70-74: one commentToPr call fails; Promise.all rejects with the
\* first failure, the other calls go on
CommentRejects(n, err) ==
    /\ posts[n].state = "pending"
    /\ posts' = [posts EXCEPT ![n].state = "rejected", ![n].reason = err]
    /\ IF pc = "await_comments"
       THEN thrown' = err /\ pc' = "thrown"
       ELSE UNCHANGED <<thrown, pc>>
    /\ UNCHANGED <<context, releaseMultiHash, body, prs, buildCalls,
                   buildPromise, listCalls, listPromise, commentCalls>>

\* build.ts:70-75: every commentToPr call succeeded, Promise.all resolves
Return ==
    /\ pc = "await_comments"
    /\ \A i \in DOMAIN prs : posts[prs[i]].state = "fulfilled"
    /\ pc' = "done"
    /\ UNCHANGED <<context, releaseMultiHash, body, prs, thrown, buildCalls,
                   buildPromise, listCalls, listPromise, commentCalls, posts>>

\* build.ts:86-91, 97: the test build returns
TestBuildResolves ==
    /\ pc = "await_test_build"
    /\ buildPromise' = Fulfilled
    /\ pc' = "done"
    /\ UNCHANGED <<context, releaseMultiHash, body, prs, thrown, buildCalls,
                   listCalls, listPromise, commentCalls, posts>>

\* build.ts:86: the test build fails
TestBuildRejects(err) ==
    /\ pc = "await_test_build"
    /\ buildPromise' = Rejected(err)
    /\ thrown' = err
    /\ pc' = "thrown"
    /\ UNCHANGED <<context, releaseMultiHash, body, prs, buildCalls,
                   listCalls, listPromise, commentCalls, posts>>

Next ==
    \/ StartUploadBuild
    \/ StartTestBuild
    \/ ThrowNoContext
    \/ ThrowUnsupportedEvent
    \/ \E h \in ReleaseHashes : UploadBuildResolves(h)
    \/ \E err \in BuildErrors : UploadBuildRejects(err)
    \/ \E list \in PrLists : PrsResolve(list)
    \/ \E err \in ListErrors : PrsReject(err)
    \/ \E n \in PrNumbers, thread \in ExistingThreads : CommentResolves(n, thread)
    \/ \E n \in PrNumbers, err \in CommentErrors : CommentRejects(n, err)
    \/ Return
    \/ TestBuildResolves
    \/ \E err \in BuildErrors : TestBuildRejects(err)

Spec == Init /\ [][Next]_vars

----------------------------------------------------------------------------
(* Vocabulary of the properties *)

\* the marker tag every bot comment carries
MarkerTag ==
    << "(", "b", "y", " ", "d", "a", "p", "p", "n", "o", "d", "e", "b", "o",
      "t", "/", "b", "u", "i", "l", "d", "-", "a", "c", "t", "i", "o", "n",
      ")" >>

\* t occurs in s: after some i characters of s come the characters of t
Contains(s, t) ==
    \E i \in 0..(Len(s) - Len(t)) :
        \A j \in 1..Len(t) : s[i + j] = t[j]

HasMarker(s) == Contains(s, MarkerTag)

ExcludedBranches ==
    { <<"H", "E", "A", "D">>, <<"m", "a", "s", "t", "e", "r">>,
      <<"m", "a", "i", "n">> }

IsPush == eventName = <<"p", "u", "s", "h">>

IsPullRequest ==
    eventName = <<"p", "u", "l", "l", "_", "r", "e", "q", "u", "e", "s", "t">>

PushOfTemporaryBranch ==
    IsPush /\ ref.type = "branch" /\ ref.branch \notin ExcludedBranches

PushOfPermanentBranch ==
    IsPush /\ ref.type = "branch" /\ ref.branch \in ExcludedBranches

\* the persistent configuration of the build pipeline
IsPersistentBuild(options) ==
    /\ options.provider = "pinata"
    /\ options.upload_to = "ipfs"
    /\ "delete_old_pins" \in DOMAIN options /\ options.delete_old_pins
    /\ "require_git_data" \in DOMAIN options /\ options.require_git_data
    /\ options.verbose
    /\ "skip_save" \notin DOMAIN options

\* the test-build configuration of the build pipeline
IsTestBuild(options) ==
    /\ "skip_save" \in DOMAIN options /\ options.skip_save
    /\ "delete_old_pins" \notin DOMAIN options

Dispatched == pc # "start"

NoCalls == buildCalls = <<>> /\ listCalls = <<>> /\ commentCalls = <<>>

----------------------------------------------------------------------------
(* Properties *)

\* C1: a push of a branch other than HEAD, master and main invokes the build
\* pipeline exactly once, with the persistent configuration (pinata, ipfs,
\* delete_old_pins, require_git_data, verbose), and never with the test-build
\* configuration.
C1_TemporaryBranchPushUploads ==
    PushOfTemporaryBranch =>
        /\ \A i \in DOMAIN buildCalls : ~IsTestBuild(buildCalls[i])
        /\ pc # "await_test_build"
        /\ Dispatched =>
              Len(buildCalls) = 1 /\ IsPersistentBuild(buildCalls[1])

C1_Witness ==
    PushOfTemporaryBranch /\ pc = "done" /\ Len(buildCalls) = 1

\* C2: a push of HEAD, master or main never invokes the persistent
\* configuration; the test build (skip_save) runs instead and neither
\* getOpenPrsFromBranch nor commentToPr is called.
C2_PermanentBranchPushTestBuilds ==
    PushOfPermanentBranch =>
        /\ \A i \in DOMAIN buildCalls : ~IsPersistentBuild(buildCalls[i])
        /\ Dispatched => Len(buildCalls) = 1 /\ IsTestBuild(buildCalls[1])
        /\ listCalls = <<>>
        /\ commentCalls = <<>>

C2_Witness ==
    PushOfPermanentBranch /\ ref.branch = <<"m", "a", "i", "n">> /\ pc = "done"

\* C3: a pull_request event, whatever the ref, invokes the build pipeline with
\* the test-build configuration and never calls commentToPr.
C3_PullRequestTestBuilds ==
    IsPullRequest =>
        /\ Dispatched => Len(buildCalls) = 1 /\ IsTestBuild(buildCalls[1])
        /\ commentCalls = <<>>

C3_Witness ==
    /\ IsPullRequest
    /\ ref.type = "branch"
    /\ ref.branch \notin ExcludedBranches
    /\ pc = "done"

\* C4: with no event name the routine ends in the error "Not in Github action
\* context" and has called neither the build pipeline nor getOpenPrsFromBranch
\* nor commentToPr.
C4_NoEventNameIsContextError ==
    eventName = <<>> =>
        /\ NoCalls
        /\ Dispatched => pc = "thrown" /\ thrown = Error(NoContextMessage)

C4_Witness == eventName = <<>> /\ pc = "thrown"

\* C5: with an event name other than push and pull_request the routine ends
\* in the unsupported-event error, whose message names the event, and no
\* collaborator has been called.
C5_OtherEventIsUnsupported ==
    (eventName # <<>> /\ ~IsPush /\ ~IsPullRequest) =>
        /\ NoCalls
        /\ Dispatched =>
              /\ pc = "thrown"
              /\ thrown.message # NoContextMessage
              /\ Contains(thrown.message, eventName)
              /\ thrown.message =
                   <<"U", "n", "s", "u", "p", "p", "o", "r", "t", "e", "d",
                     " ", "e", "v", "e", "n", "t", " ">> \o eventName

C5_Witness ==
    /\ eventName = <<"d", "e", "p", "l", "o", "y", "m", "e", "n", "t">>
    /\ pc = "thrown"

C7_TargetCommentIffMarker ==
    /\ buildPromise.state = "fulfilled" /\ PushOfTemporaryBranch =>
          isTargetComment(getBuildBotComment(commitSha, releaseMultiHash))
    /\ \A n \in PrNumbers :
          posts[n].state = "fulfilled" =>
              /\ isTargetComment(posts[n].thread[Len(posts[n].thread)])
              /\ \A i \in DOMAIN posts[n].fetched :
                    ~HasMarker(posts[n].fetched[i]) =>
                        ~isTargetComment(posts[n].fetched[i])

C7_Witness ==
    \E n \in PrNumbers :
        /\ posts[n].state = "fulfilled"
        /\ \E i \in DOMAIN posts[n].fetched :
              /\ ~HasMarker(posts[n].fetched[i])
              /\ Contains(posts[n].fetched[i], SubSeq(MarkerTag, 1, 28))
        /\ HasMarker(body)

\* C8: whatever posts fail and in whatever order the posts complete, a
\* commentToPr call has been issued for every listed pull request, and a post
\* that succeeded stays posted: its comment is not taken back.
C8_FailedPostLeavesOthers ==
    /\ [](listPromise.state = "fulfilled" =>
            \A i \in DOMAIN prs :
                /\ \E j \in DOMAIN commentCalls : commentCalls[j].number = prs[i]
                /\ posts[prs[i]].state \in {"pending", "fulfilled", "rejected"})
    /\ [][\A n \in PrNumbers :
            posts[n].state = "fulfilled" => posts'[n] = posts[n]]_vars

C8_Witness ==
    /\ Len(prs) = 2
    /\ posts[prs[1]].state = "rejected"
    /\ posts[prs[2]].state = "fulfilled"
    /\ HasMarker(posts[prs[2]].thread[Len(posts[prs[2]].thread)])
    /\ pc = "thrown"

\* C9: a push of a tag skips: the build pipeline is not invoked in either
\* configuration and no comment is posted.
C9_TagPushSkips ==
    (IsPush /\ ref.type = "tag") => NoCalls

\* C10: on a push of a temporary branch getOpenPrsFromBranch is called only
\* after the build has returned a release hash and commentToPr only after
\* the listing has returned; a failed build leaves no listing and no comment,
\* a failed listing no comment, and the routine ends with that failure.
C10_UploadStepsInOrder ==
    PushOfTemporaryBranch =>
        /\ listCalls # <<>> =>
              buildPromise.state = "fulfilled" /\ releaseMultiHash # <<>>
        /\ commentCalls # <<>> => listPromise.state = "fulfilled"
        /\ buildPromise.state = "rejected" =>
              /\ listCalls = <<>> /\ commentCalls = <<>>
              /\ pc = "thrown" /\ thrown = buildPromise.reason
        /\ listPromise.state = "rejected" =>
              /\ commentCalls = <<>>
              /\ pc = "thrown" /\ thrown = listPromise.reason
        /\ buildPromise.state = "pending" => listPromise.state = "none"
        /\ listPromise.state \in {"none", "pending"} =>
              \A n \in PrNumbers : posts[n].state = "none"

C10_Witness ==
    /\ PushOfTemporaryBranch
    /\ listPromise.state = "rejected"
    /\ listCalls # <<>>
    /\ pc = "thrown"

====
